---- MODULE Spec2Model ----
(***************************************************************************)
(* The reliability channel of ChatCast's server (src/server.py):           *)
(* handle_reliable_event and its Socket.IO entry point on_reliable_event,  *)
(* the transfer_states registry they update, and the sequence-bound        *)
(* CRC32 integrity tag they verify.                                        *)
(*                                                                         *)
(* Values of the wire are JSON values.  A JSON value is modelled as a      *)
(* one-field record whose field name is its type: [int |-> 3],             *)
(* [str |-> <<"a","b">>], [none |-> TRUE]; a key that the frame does not   *)
(* carry is [absent |-> TRUE].  A string is a sequence of one-character    *)
(* strings, a byte string a sequence of numbers in 0..255.                 *)
(***************************************************************************)
EXTENDS Integers, Sequences, FiniteSets, TLC

\* ------------------------------------------------------------------------
\* Bounds of the model
\* ------------------------------------------------------------------------

\* Sequence numbers of the frames run over 0..MaxSeq.
MaxSeq == 2

\* Width, in bits, of the two's complement vectors that stand for Python's
\* unbounded integers in `local_crc ^ seq`.
IntBits == 36

\* ------------------------------------------------------------------------
\* Program constants
\* ------------------------------------------------------------------------

\* zlib.crc32(...) & 0xFFFFFFFF : the checksum is a 32-bit word.
CrcBits == 32

\* f"{value:08x}" : the minimum field width of the rendered tag.
HexWidth == 8

\* seq % 4 == 0 : the cumulative-ack stride.
CumAckStride == 4

\* ------------------------------------------------------------------------
\* JSON values
\* ------------------------------------------------------------------------

Absent == [absent |-> TRUE]
JNone == [none |-> TRUE]
JInt(n) == [int |-> n]
JStr(s) == [str |-> s]

IsAbsent(v) == DOMAIN v = {"absent"}
IsNone(v) == DOMAIN v = {"none"}
IsInt(v) == DOMAIN v = {"int"}
IsStr(v) == DOMAIN v = {"str"}

\* data.get(key): None when the key is absent.
Get(data, key) == IF IsAbsent(data[key]) THEN JNone ELSE data[key]

\* data.get(key, default)
GetDefault(data, key, default) ==
    IF IsAbsent(data[key]) THEN default ELSE data[key]

\* Python truthiness of a JSON value: None, 0 and "" are falsy.
Truthy(v) ==
    CASE IsNone(v) -> FALSE
      [] IsAbsent(v) -> FALSE
      [] IsInt(v) -> v.int # 0
      [] IsStr(v) -> v.str # <<>>
      [] OTHER -> TRUE

\* x or ''
OrEmpty(v) == IF Truthy(v) THEN v ELSE JStr(<<>>)

\* ------------------------------------------------------------------------
\* Characters
\* ------------------------------------------------------------------------

\* The printable ASCII characters, code points 32..126 in order.
Printable ==
  << " ", "!", "\"", "#", "$", "%", "&", "'", "(", ")", "*", "+", ",", "-", ".", "/",
     "0", "1", "2", "3", "4", "5", "6", "7", "8", "9", ":", ";", "<", "=", ">", "?",
     "@", "A", "B", "C", "D", "E", "F", "G", "H", "I", "J", "K", "L", "M", "N", "O",
     "P", "Q", "R", "S", "T", "U", "V", "W", "X", "Y", "Z", "[", "\\", "]", "^", "_",
     "U+0060", "a", "b", "c", "d", "e", "f", "g", "h", "i", "j", "k", "l", "m", "n", "o",
     "p", "q", "r", "s", "t", "u", "v", "w", "x", "y", "z", "{", "|", "}", "~" >>

\* ord(c). The grave accent is written "U+0060"; the one non-ASCII character
\* of the model, e with acute accent, is written "U+00E9".
Ord(c) ==
    IF c = "U+00E9" THEN 233
    ELSE 31 + CHOOSE i \in 1..Len(Printable) : Printable[i] = c

\* str.lower(), character by character.
LowerChar(c) ==
    IF Ord(c) >= Ord("A") /\ Ord(c) <= Ord("Z")
    THEN Printable[Ord(c) - 31 + (Ord("a") - Ord("A"))]
    ELSE c

Lower(s) == [i \in 1..Len(s) |-> LowerChar(s[i])]

\* str.encode(utf-8) of one character below U+0800.
Utf8Char(c) ==
    IF Ord(c) < 128 THEN << Ord(c) >>
    ELSE << 192 + (Ord(c) \div 64), 128 + (Ord(c) % 64) >>

RECURSIVE Utf8(_)
Utf8(s) == IF s = <<>> THEN <<>> ELSE Utf8Char(Head(s)) \o Utf8(Tail(s))

\* ------------------------------------------------------------------------
\* Bit vectors: bit 0 is the least significant
\* ------------------------------------------------------------------------

\* Bit i of an integer n of the model (|n| < 2^31), in two's complement.
RECURSIVE NatBit(_, _)
NatBit(n, i) == IF i = 0 THEN n % 2
                ELSE IF n = 0 THEN 0 ELSE NatBit(n \div 2, i - 1)

IntBit(n, i) == IF n >= 0 THEN NatBit(n, i) ELSE 1 - NatBit(-n - 1, i)

\* A Python integer as a two's complement vector of IntBits bits.
IntVec(n) == [i \in 0..(IntBits - 1) |-> IntBit(n, i)]

\* A CRC word (a function on 0..CrcBits-1) widened to IntBits bits.
WordVec(w) == [i \in 0..(IntBits - 1) |-> IF i < CrcBits THEN w[i] ELSE 0]

XorVec(a, b) == [i \in DOMAIN a |-> (a[i] + b[i]) % 2]

NotVec(a) == [i \in DOMAIN a |-> 1 - a[i]]

\* a + 1 modulo 2^width
IncVec(a) ==
    [i \in DOMAIN a |->
        (a[i] + (IF \A j \in 0..(i - 1) : a[j] = 1 THEN 1 ELSE 0)) % 2]

\* ------------------------------------------------------------------------
\* zlib.crc32
\* ------------------------------------------------------------------------

\* The reflected CRC-32 polynomial 0xEDB88320, most significant nibble first.
CrcPolyNibbles == << 14, 13, 11, 8, 8, 3, 2, 0 >>

CrcPoly ==
    [i \in 0..(CrcBits - 1) |->
        NatBit(CrcPolyNibbles[Len(CrcPolyNibbles) - (i \div 4)], i % 4)]

ShiftRight(w) ==
    [i \in DOMAIN w |-> IF i = CrcBits - 1 THEN 0 ELSE w[i + 1]]

CrcStep(w) ==
    IF w[0] = 1 THEN XorVec(ShiftRight(w), CrcPoly) ELSE ShiftRight(w)

RECURSIVE CrcSteps(_, _)
CrcSteps(w, k) == IF k = 0 THEN w ELSE CrcSteps(CrcStep(w), k - 1)

CrcByte(w, b) ==
    CrcSteps([i \in DOMAIN w |-> (w[i] + NatBit(b, i)) % 2], 8)

RECURSIVE CrcFold(_, _)
CrcFold(w, bytes) ==
    IF bytes = <<>> THEN w ELSE CrcFold(CrcByte(w, Head(bytes)), Tail(bytes))

\* zlib.crc32(bytes) & 0xFFFFFFFF
Crc32(bytes) ==
    NotVec(CrcFold([i \in 0..(CrcBits - 1) |-> 1], bytes))

\* ------------------------------------------------------------------------
\* f"{value:08x}"
\* ------------------------------------------------------------------------

HexChars == << "0", "1", "2", "3", "4", "5", "6", "7",
               "8", "9", "a", "b", "c", "d", "e", "f" >>

NumNibbles == (IntBits + 3) \div 4

BitOr0(m, i) == IF i \in DOMAIN m THEN m[i] ELSE 0

Nibble(m, k) ==
    BitOr0(m, 4 * k) + 2 * BitOr0(m, 4 * k + 1)
    + 4 * BitOr0(m, 4 * k + 2) + 8 * BitOr0(m, 4 * k + 3)

\* Number of hexadecimal digits of a magnitude, at least one.
HexLen(m) ==
    IF \A k \in 0..(NumNibbles - 1) : Nibble(m, k) = 0 THEN 1
    ELSE 1 + CHOOSE k \in 0..(NumNibbles - 1) :
               /\ Nibble(m, k) # 0
               /\ \A j \in (k + 1)..(NumNibbles - 1) : Nibble(m, j) = 0

\* format(v, "08x") of the integer held by the two's complement vector v:
\* sign-aware zero padding to a total width of HexWidth characters.
Format08x(v) ==
    LET neg == v[IntBits - 1] = 1
        mag == IF neg THEN IncVec(NotVec(v)) ELSE v
        sign == IF neg THEN << "-" >> ELSE <<>>
        room == HexWidth - Len(sign)
        n == IF HexLen(mag) > room THEN HexLen(mag) ELSE room
    IN  sign \o [i \in 1..n |-> HexChars[Nibble(mag, n - i) + 1]]

\* calculated_integrity_value = local_crc ^ seq
IntegrityValue(crc, seq) == XorVec(WordVec(crc), IntVec(seq))

\* ------------------------------------------------------------------------
\* base64.b64decode(payload_b64.encode(utf-8))
\* ------------------------------------------------------------------------

\* The value of a byte in the base64 alphabet, -1 when it is not of the alphabet.
B64Value(b) ==
    CASE b >= Ord("A") /\ b <= Ord("Z") -> b - Ord("A")
      [] b >= Ord("a") /\ b <= Ord("z") -> b - Ord("a") + 26
      [] b >= Ord("0") /\ b <= Ord("9") -> b - Ord("0") + 52
      [] b = Ord("+") -> 62
      [] b = Ord("/") -> 63
      [] OTHER -> -1

\* binascii.a2b_base64 in its default, non-strict mode: bytes outside the
\* alphabet are skipped, a complete run of padding ends the input, and input
\* that ends inside a quad raises binascii.Error.
RECURSIVE A2bBase64(_, _, _, _, _)
A2bBase64(in, quad, left, pads, out) ==
    IF in = <<>>
    THEN IF quad # 0 THEN [ok |-> FALSE, raw |-> <<>>]
                     ELSE [ok |-> TRUE, raw |-> out]
    ELSE LET ch == Head(in)
             rest == Tail(in)
             v == B64Value(ch)
         IN  IF ch = Ord("=")
             THEN IF quad >= 2 /\ quad + pads + 1 >= 4
                  THEN [ok |-> TRUE, raw |-> out]
                  ELSE A2bBase64(rest, quad, left,
                                 IF quad >= 2 THEN pads + 1 ELSE pads, out)
             ELSE IF v = -1
             THEN A2bBase64(rest, quad, left, pads, out)
             ELSE CASE quad = 0 -> A2bBase64(rest, 1, v, 0, out)
                    [] quad = 1 ->
                         A2bBase64(rest, 2, v % 16, 0,
                                   Append(out, left * 4 + (v \div 16)))
                    [] quad = 2 ->
                         A2bBase64(rest, 3, v % 4, 0,
                                   Append(out, left * 16 + (v \div 4)))
                    [] OTHER ->
                         A2bBase64(rest, 0, 0, 0, Append(out, left * 64 + v))

\* The try block of the chunk branch: a payload_b64 that is no string has no
\* encode() (AttributeError), a string may be malformed base64 (binascii.Error);
\* `except Exception` catches both.
B64Decode(payload_b64) ==
    IF IsStr(payload_b64)
    THEN A2bBase64(Utf8(payload_b64.str), 0, 0, 0, <<>>)
    ELSE [ok |-> FALSE, raw |-> <<>>]

\* ------------------------------------------------------------------------
\* int(x)
\* ------------------------------------------------------------------------

IsDigit(c) == Ord(c) >= Ord("0") /\ Ord(c) <= Ord("9")

RECURSIVE ParseDigits(_, _)
ParseDigits(s, acc) ==
    IF s = <<>> THEN acc
    ELSE ParseDigits(Tail(s), 10 * acc + (Ord(Head(s)) - Ord("0")))

\* int(v): an int is itself, a string of decimal digits with an optional sign
\* is parsed, any other string raises ValueError and None raises TypeError.
IntOf(v) ==
    CASE IsInt(v) -> [ok |-> TRUE, val |-> v.int, exc |-> ""]
      [] IsStr(v) ->
           LET s == v.str
               neg == s # <<>> /\ Head(s) = "-"
               digits == IF neg THEN Tail(s) ELSE s
           IN  IF digits # <<>> /\ \A i \in 1..Len(digits) : IsDigit(digits[i])
               THEN [ok |-> TRUE,
                     val |-> IF neg THEN -ParseDigits(digits, 0)
                                    ELSE ParseDigits(digits, 0),
                     exc |-> ""]
               ELSE [ok |-> FALSE, val |-> 0, exc |-> "ValueError"]
      [] OTHER -> [ok |-> FALSE, val |-> 0, exc |-> "TypeError"]

\* ------------------------------------------------------------------------
\* String literals of the protocol
\* ------------------------------------------------------------------------

StrMSG == << "M", "S", "G" >>
StrFILE_CHUNK == << "F", "I", "L", "E", "_", "C", "H", "U", "N", "K" >>
StrCONTROL == << "C", "O", "N", "T", "R", "O", "L" >>
StrRESUME_REQUEST == << "R", "E", "S", "U", "M", "E", "_", "R", "E", "Q", "U", "E", "S", "T" >>
StrACK == << "A", "C", "K" >>
StrNACK == << "N", "A", "C", "K" >>
StrCUM_ACK == << "C", "U", "M", "_", "A", "C", "K" >>
StrMISSING == << "M", "I", "S", "S", "I", "N", "G" >>
StrINTEGRITY_FAIL == << "I", "N", "T", "E", "G", "R", "I", "T", "Y", "_", "F", "A", "I", "L" >>

\* ------------------------------------------------------------------------
\* Lookup tables: the conversions above, evaluated once for the values that
\* the frames of the model carry
\* ------------------------------------------------------------------------

\* Characters that occur in the strings of the model.
Chars == { Printable[i] : i \in 1..Len(Printable) } \cup { "U+00E9" }

LowerTable == [c \in Chars |-> LowerChar(c)]

\* checksum.lower()
LowerStr(s) == [i \in 1..Len(s) |-> LowerTable[s[i]]]

\* ------------------------------------------------------------------------
\* The values the frames of the model are built from
\* ------------------------------------------------------------------------

SeqNums == 0..MaxSeq

\* Transfer identifiers chosen by the senders.
TidA == JStr(<< "A" >>)
TidB == JStr(<< "B" >>)
TransferIds == { TidA, TidB }

\* base64 texts: of b"a", of b"a" with a character outside the alphabet in it,
\* of b"b", and two texts that end inside a quad.
B64a == JStr(<< "Y", "Q", "=", "=" >>)
B64aNoisy == JStr(<< "Y", "!", "Q", "=", "=" >>)
B64b == JStr(<< "Y", "g", "=", "=" >>)
B64BadPadding == JStr(<< "Y", "Q" >>)
B64OneChar == JStr(<< "Y" >>)

\* Message payloads: "hi" and a one-character text outside ASCII.
PayloadHi == JStr(<< "h", "i" >>)
PayloadAccent == JStr(<< "U+00E9" >>)

\* A tag that is the integrity tag of no payload of the model.
GarbageTag == JStr(<< "d", "e", "a", "d", "b", "e", "e", "f" >>)

B64Texts == { B64a, B64aNoisy, B64b, B64BadPadding, B64OneChar, JStr(<<>>) }

B64Table == [t \in B64Texts |-> B64Decode(t)]

\* The mutant of Decoded that takes the bytes decoded so far when the text
\* ends inside a quad.
DecodedLenient(payload_b64) ==
    [ok |-> IsStr(payload_b64), raw |-> B64Decode(payload_b64).raw]

\* raw = base64.b64decode(payload_b64.encode(utf-8)), or the except branch
Decoded(payload_b64) ==
    IF payload_b64 \in B64Texts THEN B64Table[payload_b64]
    ELSE B64Decode(payload_b64)

MsgTexts == { PayloadHi.str, PayloadAccent.str, <<>> }

Utf8Table == [t \in MsgTexts |-> Utf8(t)]

\* payload.encode(utf-8)
Encoded(text) == IF text \in MsgTexts THEN Utf8Table[text] ELSE Utf8(text)

\* The byte strings and sequence numbers whose tags are tabulated.
TagBytes ==
    { B64Table[t].raw : t \in B64Texts } \cup { Utf8Table[t] : t \in MsgTexts }

TagSeqs == (-1)..(MaxSeq + 1)

\* The largest number of chunks of a transfer whose chunks arrive in every
\* possible order (SpecOrder).
MaxTotal == 4

\* The mutant of CalculatedHex that leaves the sequence number out of the tag.
CalculatedHexUnbound(bytes, seq) ==
    Format08x(IntegrityValue(Crc32(bytes), 0))

\* calculated_hex = f"{(zlib.crc32(raw) & 0xFFFFFFFF) ^ seq:08x}"
CalculatedHex(bytes, seq) ==
    Format08x(IntegrityValue(Crc32(bytes), seq))

TagKeys == { [bytes |-> b, seq |-> n] : b \in TagBytes, n \in TagSeqs }

TagTable ==
    { [bytes |-> b, seq |-> n, tag |-> CalculatedHex(b, n)] :
        b \in TagBytes, n \in TagSeqs }

\* The entries of a table of tags for a byte string and a sequence number.
Tabulated(table, bytes, seq) == { e \in table : e.bytes = bytes /\ e.seq = seq }

TagOf(bytes, seq) ==
    IF [bytes |-> bytes, seq |-> seq] \in TagKeys
    THEN (CHOOSE e \in Tabulated(TagTable, bytes, seq) : TRUE).tag
    ELSE CalculatedHex(bytes, seq)

\* ------------------------------------------------------------------------
\* handle_reliable_event
\* ------------------------------------------------------------------------

\* The keys a frame of the model may carry.
Keys == { "type", "seq", "transfer_id", "payload", "checksum", "payload_b64",
          "total_chunks", "chunk_size", "filename", "total_size", "cmd" }

\* A frame is a dict; any other JSON value has no get().
IsDict(data) == "type" \in DOMAIN data

\* result.update(u)
Update(result, u) == u @@ result

\* The mutant of SendControl whose frame overtakes the frames sent before it.
SendControlFirst(sent, payload) ==
    << [type |-> JStr(StrCONTROL)] @@ payload >> \o sent

\* _send_control(send, payload): send({**payload, 'type': 'CONTROL'})
SendControl(sent, payload) ==
    Append(sent, [type |-> JStr(StrCONTROL)] @@ payload)

\* What a call of handle_reliable_event leaves behind: the registry, the
\* control frames handed to send, and either the returned result or the
\* exception raised (exc is "" when the call returned).
Returned(ts, sent, result) ==
    [transfer_states |-> ts, sent |-> sent, result |-> result, exc |-> ""]

Raised(ts, sent, exc) ==
    [transfer_states |-> ts, sent |-> sent, result |-> Absent, exc |-> exc]

\* The mutant of IntegrityMismatch that verifies a tag only when there is one.
IntegrityMismatchWhenTagged(calculated_hex, checksum) ==
    checksum # <<>> /\ LowerStr(calculated_hex) # LowerStr(checksum)

\* The mutant of IntegrityMismatch that compares the tags as they are written.
IntegrityMismatchCaseSensitive(calculated_hex, checksum) ==
    calculated_hex # checksum

\* calculated_hex.lower() != checksum.lower()
IntegrityMismatch(calculated_hex, checksum) ==
    LowerStr(calculated_hex) # LowerStr(checksum)

\* if typ == 'MSG':
HandleMsg(data, result, ts) ==
    LET seqr == IntOf(GetDefault(data, "seq", JInt(0)))
        seq == seqr.val
        payload == GetDefault(data, "payload", JStr(<<>>))
        checksum == OrEmpty(Get(data, "checksum"))
    IN  IF ~seqr.ok THEN Raised(ts, <<>>, seqr.exc)
        ELSE IF Truthy(checksum)
        THEN \* zlib.crc32 of a payload that is no string raises TypeError,
             \* lower() of a checksum that is no string AttributeError
             IF ~IsStr(payload) THEN Raised(ts, <<>>, "TypeError")
             ELSE IF ~IsStr(checksum) THEN Raised(ts, <<>>, "AttributeError")
             ELSE LET calculated_hex == TagOf(Encoded(payload.str), seq)
                  IN  IF IntegrityMismatch(calculated_hex, checksum.str)
                      THEN Returned(ts,
                             SendControl(<<>>,
                               [cmd |-> JStr(StrINTEGRITY_FAIL),
                                seq |-> JInt(seq),
                                transfer_id |-> JStr(StrMSG),
                                meta |-> [reason |-> << "integrity_compromised" >>,
                                          expected |-> JStr(calculated_hex),
                                          received |-> checksum,
                                          seq |-> JInt(seq),
                                          type |-> JStr(StrMSG)]]),
                             Update(result, [cmd |-> JStr(StrINTEGRITY_FAIL),
                                             seq |-> JInt(seq)]))
                      ELSE Returned(ts,
                             SendControl(<<>>,
                               [cmd |-> JStr(StrACK),
                                seq |-> JInt(seq),
                                meta |-> [integrity_status |-> << "valid" >>,
                                          expected |-> JStr(calculated_hex),
                                          received |-> checksum,
                                          type |-> JStr(StrMSG)]]),
                             Update(result, [cmd |-> JStr(StrACK),
                                             seq |-> JInt(seq)]))
        ELSE Returned(ts,
               SendControl(<<>>, [cmd |-> JStr(StrACK), seq |-> JInt(seq)]),
               Update(result, [cmd |-> JStr(StrACK), seq |-> JInt(seq)]))

\* The mutant of MissingTransferId that lets an empty identifier through.
MissingTransferIdNoneOnly(transfer_id) == IsNone(transfer_id)

\* if not transfer_id:
MissingTransferId(transfer_id) == ~Truthy(transfer_id)

\* The state created for a transfer identifier that has none.
NewTransferState(data, total_chunks) ==
    [received |-> {},
     highest_contig |-> -1,
     meta |-> [total_chunks |-> total_chunks,
               chunk_size |-> Get(data, "chunk_size"),
               filename |-> Get(data, "filename"),
               total_size |-> Get(data, "total_size")]]

\* The mutant of GetOrCreate that takes the meta of every chunk.
GetOrCreateLatestMeta(ts, transfer_id, data, total_chunks) ==
    IF transfer_id \in DOMAIN ts
    THEN [ts[transfer_id] EXCEPT
              !.meta = NewTransferState(data, total_chunks).meta]
    ELSE NewTransferState(data, total_chunks)

\* st = transfer_states.get(transfer_id); if not st: st = {...}
GetOrCreate(ts, transfer_id, data, total_chunks) ==
    IF transfer_id \in DOMAIN ts
    THEN ts[transfer_id]
    ELSE NewTransferState(data, total_chunks)

\* The mutant of Advance that moves the prefix by one step at most.
AdvanceOnce(hc, received) == IF (hc + 1) \in received THEN hc + 1 ELSE hc

\* while (hc + 1) in st['received']: hc += 1
RECURSIVE Advance(_, _)
Advance(hc, received) ==
    IF (hc + 1) \in received THEN Advance(hc + 1, received) ELSE hc

\* The mutant of RecordChunk that records every delivery and recounts the
\* prefix from the chunk's own sequence number.
RecordChunkRecount(st, seq) ==
    [st EXCEPT !.received = @ \cup { seq },
               !.highest_contig = Advance(seq, st.received \cup { seq })]

\* The mutant of RecordChunk that keeps the latest sequence number in
\* highest_contig.
RecordChunkLatest(st, seq) ==
    IF seq \notin st.received
    THEN [st EXCEPT !.received = @ \cup { seq }, !.highest_contig = seq]
    ELSE st

\* if seq not in st['received']: add it and advance highest_contig
RecordChunk(st, seq) ==
    IF seq \notin st.received
    THEN [st EXCEPT !.received = @ \cup { seq },
                    !.highest_contig =
                        Advance(st.highest_contig, st.received \cup { seq })]
    ELSE st

\* The mutant of CumAckDue that follows every ACK by a CUM_ACK.
CumAckDueAlways(st, seq) == st.meta.total_chunks # 0

\* The mutant of CumAckDue that leaves out the completion of the transfer.
CumAckDueStrideOnly(st, seq) ==
    st.meta.total_chunks # 0 /\ seq % CumAckStride = 0

\* The condition under which a CUM_ACK follows the ACK of a chunk.
CumAckDue(st, seq) ==
    /\ st.meta.total_chunks # 0
    /\ \/ seq % CumAckStride = 0
       \/ st.highest_contig = st.meta.total_chunks - 1

\* if typ == 'FILE_CHUNK':
HandleFileChunk(data, result, ts) ==
    LET transfer_id == Get(data, "transfer_id")
        seqr == IntOf(GetDefault(data, "seq", JInt(0)))
        seq == seqr.val
        checksum == OrEmpty(Get(data, "checksum"))
        payload_b64 == OrEmpty(Get(data, "payload_b64"))
        totr == IntOf(GetDefault(data, "total_chunks", JInt(0)))
        total_chunks == totr.val
        dec == Decoded(payload_b64)
        calculated_hex == TagOf(dec.raw, seq)
        st == RecordChunk(GetOrCreate(ts, transfer_id, data, total_chunks),
                          seq)
        ack == SendControl(<<>>,
                 [cmd |-> JStr(StrACK),
                  transfer_id |-> transfer_id,
                  seq |-> JInt(seq),
                  meta |-> [integrity_status |-> << "valid" >>,
                            expected |-> JStr(calculated_hex),
                            received |-> checksum]])
    IN  IF ~seqr.ok THEN Raised(ts, <<>>, seqr.exc)
        ELSE IF ~totr.ok THEN Raised(ts, <<>>, totr.exc)
        ELSE IF MissingTransferId(transfer_id)
        THEN Returned(ts,
               SendControl(<<>>,
                 [cmd |-> JStr(StrNACK), seq |-> JInt(seq),
                  transfer_id |-> transfer_id,
                  meta |-> [reason |-> << "missing_transfer_id" >>]]),
               Update(result, [cmd |-> JStr(StrNACK), seq |-> JInt(seq),
                               reason |-> << "missing_transfer_id" >>]))
        ELSE IF ~dec.ok
        THEN Returned(ts,
               SendControl(<<>>,
                 [cmd |-> JStr(StrNACK), seq |-> JInt(seq),
                  transfer_id |-> transfer_id,
                  meta |-> [reason |-> << "invalid_base64" >>]]),
               Update(result, [cmd |-> JStr(StrNACK), seq |-> JInt(seq),
                               reason |-> << "invalid_base64" >>]))
        \* lower() of a checksum that is no string raises AttributeError
        ELSE IF ~IsStr(checksum) THEN Raised(ts, <<>>, "AttributeError")
        ELSE IF IntegrityMismatch(calculated_hex, checksum.str)
        THEN Returned(ts,
               SendControl(<<>>,
                 [cmd |-> JStr(StrINTEGRITY_FAIL), seq |-> JInt(seq),
                  transfer_id |-> transfer_id,
                  meta |-> [reason |-> << "integrity_compromised" >>,
                            expected |-> JStr(calculated_hex),
                            received |-> checksum,
                            seq |-> JInt(seq)]]),
               Update(result, [cmd |-> JStr(StrINTEGRITY_FAIL), seq |-> JInt(seq),
                               reason |-> << "integrity_mismatch" >>]))
        ELSE Returned([k \in DOMAIN ts \cup { transfer_id } |->
                          IF k = transfer_id THEN st ELSE ts[k]],
               IF CumAckDue(st, seq)
               THEN SendControl(ack,
                      [cmd |-> JStr(StrCUM_ACK), transfer_id |-> transfer_id,
                       seq |-> JInt(st.highest_contig)])
               ELSE ack,
               Update(result, [cmd |-> JStr(StrACK), seq |-> JInt(seq)]))

RECURSIVE MissingFrom(_, _, _)
MissingFrom(i, total, received) ==
    IF i >= total THEN <<>>
    ELSE (IF i \notin received THEN << i >> ELSE <<>>)
         \o MissingFrom(i + 1, total, received)

\* The mutant of MissingList that reports only the gaps below the largest
\* sequence number received, not the chunks after it.
MissingListGapsOnly(st) ==
    MissingFrom(0,
                CHOOSE m \in st.received : \A r \in st.received : r <= m,
                st.received)

\* missing = [i for i in range(total) if i not in st['received']]
MissingList(st) == MissingFrom(0, st.meta.total_chunks, st.received)

\* The mutant of IsResumeRequest that answers every control frame that names
\* a transfer, whatever its command.
IsResumeRequestAnyCommand(cmd, transfer_id) == Truthy(transfer_id)

\* if cmd == 'RESUME_REQUEST' and transfer_id:
IsResumeRequest(cmd, transfer_id) ==
    cmd = JStr(StrRESUME_REQUEST) /\ Truthy(transfer_id)

\* if typ == 'CONTROL':
HandleControl(data, result, ts) ==
    LET cmd == Get(data, "cmd")
        transfer_id == Get(data, "transfer_id")
    IN  Returned(ts,
          IF IsResumeRequest(cmd, transfer_id)
          THEN IF transfer_id \notin DOMAIN ts
               THEN SendControl(<<>>,
                      [cmd |-> JStr(StrCUM_ACK), transfer_id |-> transfer_id,
                       seq |-> JInt(-1)])
               ELSE IF MissingList(ts[transfer_id]) # <<>>
               THEN SendControl(<<>>,
                      [cmd |-> JStr(StrMISSING), transfer_id |-> transfer_id,
                       meta |-> [missing |-> MissingList(ts[transfer_id])]])
               ELSE SendControl(<<>>,
                      [cmd |-> JStr(StrCUM_ACK), transfer_id |-> transfer_id,
                       seq |-> JInt(ts[transfer_id].highest_contig)])
          ELSE <<>>,
          Update(result, [cmd |-> cmd]))

\* The branches of handle_reliable_event, by the type of the frame.
Dispatch(typ, data, result, ts) ==
    CASE typ = JStr(StrMSG) -> HandleMsg(data, result, ts)
      [] typ = JStr(StrFILE_CHUNK) -> HandleFileChunk(data, result, ts)
      [] typ = JStr(StrCONTROL) -> HandleControl(data, result, ts)
      [] OTHER -> Returned(ts, <<>>, Update(result, [cmd |-> JNone]))

\* The registry ts with the sequence number seq recorded for transfer_id.
Tracked(ts, transfer_id, data, seq) ==
    [k \in DOMAIN ts \cup { transfer_id } |->
        IF k = transfer_id
        THEN RecordChunk(GetOrCreate(ts, transfer_id, data, 0), seq)
        ELSE ts[k]]

\* The mutant of HandleReliableEvent that tracks the messages that name a
\* transfer in the registry, as it does chunks.
HandleReliableEventTrackingMsg(data, sid, ts) ==
    IF ~IsDict(data) THEN Raised(ts, <<>>, "AttributeError")
    ELSE LET typ == Get(data, "type")
             transfer_id == Get(data, "transfer_id")
             r == Dispatch(typ, data,
                           [handled |-> typ, sid |-> sid,
                            transfer_id |-> transfer_id], ts)
         IN  IF typ = JStr(StrMSG) /\ r.exc = "" /\ Truthy(transfer_id)
             THEN [r EXCEPT !.transfer_states =
                       Tracked(ts, transfer_id, data, r.result.seq.int)]
             ELSE r

\* The mutant of HandleReliableEvent whose RESUME_REQUEST looks the transfer
\* up with setdefault, creating the state it does not find.
HandleReliableEventResumeCreates(data, sid, ts) ==
    IF ~IsDict(data) THEN Raised(ts, <<>>, "AttributeError")
    ELSE LET typ == Get(data, "type")
             transfer_id == Get(data, "transfer_id")
             r == Dispatch(typ, data,
                           [handled |-> typ, sid |-> sid,
                            transfer_id |-> transfer_id], ts)
         IN  IF /\ typ = JStr(StrCONTROL)
                /\ Get(data, "cmd") = JStr(StrRESUME_REQUEST)
                /\ Truthy(transfer_id)
                /\ transfer_id \notin DOMAIN ts
             THEN [r EXCEPT !.transfer_states =
                       [k \in DOMAIN ts \cup { transfer_id } |->
                           IF k = transfer_id
                           THEN NewTransferState(data, 0)
                           ELSE ts[k]]]
             ELSE r

\* The mutant of HandleReliableEvent that records a chunk in the registry
\* before it verifies the integrity tag, so that a chunk answered with
\* INTEGRITY_FAIL is recorded too.
HandleReliableEventRecordsFirst(data, sid, ts) ==
    IF ~IsDict(data) THEN Raised(ts, <<>>, "AttributeError")
    ELSE LET typ == Get(data, "type")
             transfer_id == Get(data, "transfer_id")
             r == Dispatch(typ, data,
                           [handled |-> typ, sid |-> sid,
                            transfer_id |-> transfer_id], ts)
         IN  IF /\ typ = JStr(StrFILE_CHUNK)
                /\ r.exc = ""
                /\ r.result.cmd = JStr(StrINTEGRITY_FAIL)
             THEN [r EXCEPT !.transfer_states =
                       Tracked(ts, transfer_id, data, r.result.seq.int)]
             ELSE r

\* def handle_reliable_event(data, sid, send)
HandleReliableEvent(data, sid, ts) ==
    IF ~IsDict(data) THEN Raised(ts, <<>>, "AttributeError")
    ELSE LET typ == Get(data, "type")
             result == [handled |-> typ, sid |-> sid,
                        transfer_id |-> Get(data, "transfer_id")]
         IN  Dispatch(typ, data, result, ts)

\* ------------------------------------------------------------------------
\* The frames of the model
\* ------------------------------------------------------------------------

EmptyFrame == [k \in Keys |-> Absent]

\* The meta fields a chunk carries: a transfer of MaxSeq + 1 chunks, a
\* transfer of one chunk, and a chunk that carries none of the fields.
MetaWhole ==
    [total_chunks |-> JInt(MaxSeq + 1), chunk_size |-> JInt(8),
     filename |-> JStr(<< "f" >>), total_size |-> JInt(8 * (MaxSeq + 1))]

MetaOne ==
    [total_chunks |-> JInt(1), chunk_size |-> JInt(4),
     filename |-> JStr(<< "g" >>), total_size |-> JInt(4)]

MetaNone ==
    [total_chunks |-> Absent, chunk_size |-> Absent,
     filename |-> Absent, total_size |-> Absent]

Metas == { MetaWhole, MetaOne, MetaNone }

Chunk(transfer_id, seq, payload_b64, checksum, meta) ==
    [type |-> JStr(StrFILE_CHUNK), transfer_id |-> transfer_id, seq |-> seq,
     payload_b64 |-> payload_b64, checksum |-> checksum,
     total_chunks |-> meta.total_chunks, chunk_size |-> meta.chunk_size,
     filename |-> meta.filename, total_size |-> meta.total_size] @@ EmptyFrame

Msg(seq, payload, checksum, transfer_id) ==
    [type |-> JStr(StrMSG), seq |-> seq, payload |-> payload,
     checksum |-> checksum, transfer_id |-> transfer_id] @@ EmptyFrame

Control(cmd, transfer_id) ==
    [type |-> JStr(StrCONTROL), cmd |-> cmd, transfer_id |-> transfer_id]
    @@ EmptyFrame

\* The tag a sender computes for a base64 text or a message text and a
\* sequence number.
ChunkTag(payload_b64, seq) == JStr(TagOf(Decoded(payload_b64).raw, seq))

MsgTag(payload, seq) == JStr(TagOf(Encoded(payload.str), seq))

\* The senders' tags of the payloads of the model, by payload and sequence
\* number; the families of frames below take them as their argument tag.
ChunkTags == [b \in { B64a, B64b } |-> [n \in TagSeqs |-> ChunkTag(b, n)]]

MsgTags == [p \in { PayloadHi, PayloadAccent } |-> [n \in TagSeqs |-> MsgTag(p, n)]]

\* The same tag written in capitals.
UpperChar(c) ==
    IF Ord(c) >= Ord("a") /\ Ord(c) <= Ord("z")
    THEN Printable[Ord(c) - 31 - (Ord("a") - Ord("A"))]
    ELSE c

Upper(tag) == JStr([i \in 1..Len(tag.str) |-> UpperChar(tag.str[i])])

\* A sequence number below ten written as a string of one digit.
DigitStr(n) == JStr(<< HexChars[n + 1] >>)

\* Chunks that pass every check.
ValidChunks(tag) ==
    { Chunk(t, JInt(s), B64a, tag[B64a][s], m) :
        t \in TransferIds, s \in SeqNums, m \in Metas }
    \cup { Chunk(TidA, JInt(s), B64a, Upper(tag[B64a][s]), MetaWhole) :
             s \in SeqNums }
    \cup { Chunk(TidA, JInt(s), B64aNoisy, tag[B64a][s], MetaWhole) :
             s \in SeqNums }
    \cup { Chunk(TidA, JInt(s), B64b, tag[B64b][s], MetaWhole) :
             s \in SeqNums }
    \cup { Chunk(TidA, DigitStr(s), B64a, tag[B64a][s], MetaWhole) :
             s \in SeqNums }

\* Chunks whose tag is the tag of another sequence number or of another
\* payload, is no tag at all, or is absent.
WrongChunkTags(tag, s) ==
    { tag[B64a][n] : n \in TagSeqs \ { s } }
    \cup { tag[B64b][s], Upper(tag[B64b][s + 1]), GarbageTag, Absent }

CorruptChunks(tag) ==
    UNION { { Chunk(TidA, JInt(s), B64a, c, MetaWhole) :
                c \in WrongChunkTags(tag, s) } : s \in SeqNums }
    \cup { Chunk(TidB, JInt(s), B64b, tag[B64b][s + 1], MetaOne) :
             s \in SeqNums }

\* Chunks without a transfer identifier, whatever else they carry.
NoIdChunks(tag) ==
    UNION { { Chunk(t, JInt(s), b, c, MetaWhole) :
                t \in { Absent, JStr(<<>>) },
                b \in { B64a, B64BadPadding, Absent },
                c \in { tag[B64a][s], GarbageTag } } : s \in 0..1 }

\* Chunks whose payload_b64 cannot be decoded.
BadEncodingChunks(tag) ==
    UNION { { Chunk(t, JInt(s), b, c, MetaWhole) :
                t \in TransferIds,
                b \in { B64BadPadding, B64OneChar, JInt(7) },
                c \in { tag[B64a][s], GarbageTag } } : s \in 0..1 }

\* Chunks with a field of a type the handler does not expect.
IllTypedChunks(tag) ==
    { Chunk(TidA, JStr(<< "x" >>), B64a, tag[B64a][0], MetaWhole),
      Chunk(TidA, JNone, B64a, tag[B64a][0], MetaWhole),
      Chunk(Absent, JStr(<< "x" >>), B64a, tag[B64a][0], MetaWhole),
      Chunk(TidA, JInt(1), B64a, JInt(7), MetaWhole),
      Chunk(TidA, JInt(1), B64a, tag[B64a][1],
            [MetaWhole EXCEPT !.total_chunks = JStr(<< "x" >>)]),
      Chunk(TidB, Absent, B64a, tag[B64a][0],
            [MetaWhole EXCEPT !.total_chunks = JStr(<< "x" >>)]) }

ChunkFramesTagged(tag) ==
    ValidChunks(tag) \cup CorruptChunks(tag) \cup NoIdChunks(tag)
    \cup BadEncodingChunks(tag) \cup IllTypedChunks(tag)

ChunkFrames == ChunkFramesTagged(ChunkTags)

MsgSeqs == (-1)..MaxSeq

\* The tags tried on the message with payload p and sequence number s: the
\* tag of every sequence number, none, capitals, and a tag of no payload.
TriedMsgTags(tag, p, s) ==
    { tag[p][n] : n \in TagSeqs }
    \cup { Absent, Upper(tag[p][s]), Upper(tag[p][s + 1]), GarbageTag }

MsgFramesTagged(tag) ==
    UNION { { Msg(JInt(s), PayloadHi, c, Absent) :
                c \in TriedMsgTags(tag, PayloadHi, s) } : s \in MsgSeqs }
    \cup UNION { { Msg(JInt(s), PayloadAccent, c, t) :
                     t \in { Absent, TidA },
                     c \in { tag[PayloadAccent][s],
                             tag[PayloadAccent][s + 1] } } : s \in MsgSeqs }
    \cup { Msg(Absent, PayloadHi, Absent, Absent),
           Msg(JStr(<< "x" >>), PayloadHi, Absent, Absent),
           Msg(JInt(1), JInt(5), GarbageTag, Absent),
           Msg(JInt(1), PayloadHi, JInt(7), Absent),
           Msg(JInt(0), PayloadHi, JStr(<<>>), Absent) }

MsgFrames == MsgFramesTagged(MsgTags)

ControlFrames ==
    { Control(c, t) :
        c \in { JStr(StrRESUME_REQUEST), JStr(StrACK), Absent },
        t \in TransferIds \cup { Absent, JStr(<<>>) } }

\* Frames of no known type, and values that are no frame at all.
OtherFrames ==
    { EmptyFrame,
      [EmptyFrame EXCEPT !.type = JStr(<< "P", "I", "N", "G" >>)],
      JStr(<< "x" >>),
      JNone }

Frames == ChunkFrames \cup MsgFrames \cup ControlFrames \cup OtherFrames

\* ------------------------------------------------------------------------
\* State
\* ------------------------------------------------------------------------

VARIABLES
    transfer_states,  \* the registry: transfer_id -> received, highest_contig, meta
    data,             \* the frame of the reliable_event being handled
    sent,             \* the control frames emitted for it, in order
    result,           \* what handle_reliable_event returned for it
    outcome,          \* "idle" between two events, else how the call ended:
                      \* "returned", "caught" or "propagated"
    arrived,          \* SpecOrder only: the sequence numbers of the chunks of
                      \* the one transfer, in the order of their arrival
    threads,          \* SpecRace only: the handler threads, each with its
                      \* place in the code, its frame and its locals st and hc
    heap,             \* SpecRace only: the state dicts, by reference
    transfer_refs,    \* SpecRace only: the reference transfer_states holds
                      \* for each transfer_id
    cum_acks          \* SpecLog only: the CUM_ACK frames sent so far, oldest
                      \* first, each with the frame it answered

vars ==
    << transfer_states, data, sent, result, outcome, arrived,
       threads, heap, transfer_refs, cum_acks >>

\* What only the handler threads of SpecRace change.
raceVars == << threads, heap, transfer_refs >>

\* async_mode = threading: the events are handled by threads; two are enough
\* for two events to overlap.
Threads == { 1, 2 }

\* A thread that handles no event.
IdleThread == [pc |-> "idle", data |-> Absent, st |-> "none", hc |-> -1]

\* The Socket.IO session of the sender.
Sid == "sid-1"

Init ==
    /\ transfer_states = [k \in {} |-> Absent]
    /\ data = Absent
    /\ sent = <<>>
    /\ result = Absent
    /\ outcome = "idle"
    /\ arrived = <<>>
    /\ threads = [t \in Threads |-> IdleThread]
    /\ heap = [k \in {} |-> Absent]
    /\ transfer_refs = [k \in {} |-> Absent]
    /\ cum_acks = <<>>

\* @socketio.on('reliable_event'): the handler runs inside try; the except
\* branch sends a NACK built from data.get('seq', -1), which itself raises
\* when data is no dict.
OnReliableEvent(d) ==
    LET r == HandleReliableEvent(d, Sid, transfer_states)
    IN  /\ outcome = "idle"
        /\ data' = d
        /\ transfer_states' = r.transfer_states
        /\ result' = r.result
        /\ IF r.exc = ""
           THEN /\ sent' = r.sent
                /\ outcome' = "returned"
           ELSE IF IsDict(d)
           THEN /\ sent' = SendControl(r.sent,
                             [cmd |-> JStr(StrNACK),
                              seq |-> GetDefault(d, "seq", JInt(-1)),
                              meta |-> [reason |-> << "exception:", r.exc >>]])
                /\ outcome' = "caught"
           ELSE /\ sent' = r.sent
                /\ outcome' = "propagated"

OnMsg == (\E d \in MsgFrames : OnReliableEvent(d))
    /\ UNCHANGED << arrived, raceVars, cum_acks >>

OnFileChunk == (\E d \in ChunkFrames : OnReliableEvent(d))
    /\ UNCHANGED << arrived, raceVars, cum_acks >>

OnControl == (\E d \in ControlFrames : OnReliableEvent(d))
    /\ UNCHANGED << arrived, raceVars, cum_acks >>

OnOther == (\E d \in OtherFrames : OnReliableEvent(d))
    /\ UNCHANGED << arrived, raceVars, cum_acks >>

\* The call of on_reliable_event is over: its frame, its send bucket and its
\* result are gone, the registry stays, and the server waits for the next event.
EventDone ==
    /\ outcome # "idle"
    /\ data' = Absent
    /\ sent' = <<>>
    /\ result' = Absent
    /\ outcome' = "idle"
    /\ UNCHANGED << transfer_states, arrived, raceVars, cum_acks >>

Next == OnMsg \/ OnFileChunk \/ OnControl \/ OnOther \/ EventDone

\* Any sequence of frames, handled one at a time.
Spec == Init /\ [][Next]_vars

\* ------------------------------------------------------------------------
\* SpecOrder: the chunks of one transfer, each delivered once, in any order
\* ------------------------------------------------------------------------

\* The chunk with sequence number s of a transfer of n chunks.
OrderedChunk(n, s) ==
    Chunk(TidA, JInt(s), B64a, ChunkTag(B64a, s),
          [total_chunks |-> JInt(n), chunk_size |-> JInt(8),
           filename |-> JStr(<< "f" >>), total_size |-> JInt(8 * n)])

\* The first chunk fixes the number of chunks; every later one is a chunk of
\* the same transfer that has not arrived yet.
OnNextChunk ==
    \E n \in 1..MaxTotal : \E s \in 0..(n - 1) :
        /\ TidA \in DOMAIN transfer_states
              => n = transfer_states[TidA].meta.total_chunks
        /\ \A i \in 1..Len(arrived) : arrived[i] # s
        /\ OnReliableEvent(OrderedChunk(n, s))
        /\ arrived' = Append(arrived, s)
        /\ UNCHANGED << raceVars, cum_acks >>

NextOrder == OnNextChunk \/ EventDone

SpecOrder == Init /\ [][NextOrder]_vars

\* ------------------------------------------------------------------------
\* SpecStride: chunks of one transfer with sequence numbers up to the stride
\* of the cumulative acknowledgement, in any order, repeated or not
\* ------------------------------------------------------------------------

StrideSeqs == 0..CumAckStride

\* The total_chunks the chunks carry: none, one, and one less and one more
\* than the stride.
StrideTotals ==
    { Absent, JInt(1), JInt(CumAckStride - 1), JInt(CumAckStride + 1) }

StrideChunk(s, n) ==
    Chunk(TidA, JInt(s), B64a, ChunkTag(B64a, s),
          [MetaWhole EXCEPT !.total_chunks = n])

OnStrideChunk ==
    /\ \E s \in StrideSeqs : \E n \in StrideTotals :
           OnReliableEvent(StrideChunk(s, n))
    /\ UNCHANGED << arrived, raceVars, cum_acks >>

NextStride == OnStrideChunk \/ EventDone

SpecStride == Init /\ [][NextStride]_vars

\* ------------------------------------------------------------------------
\* SpecRace: two valid chunks of one transfer, each handled by its own
\* thread. A step is one read or one write of transfer_states or of a state
\* dict (server.py:187-223); the checks before them (server.py:132-184) read
\* nothing but the frame.
\* ------------------------------------------------------------------------

\* The references of the state dicts: the one transfer_states holds when the
\* threads start, and the one each thread may create.
InitialRef == "o0"

RefOf(t) == IF t = 1 THEN "o1" ELSE "o2"

\* transfer_states as the handler sees it: the dict behind each reference.
Registry(h, refs) == [k \in DOMAIN refs |-> h[refs[k]]]

\* The chunk with sequence number s of the transfer of MaxSeq + 1 chunks.
RaceChunk(s) == Chunk(TidA, JInt(s), B64a, ChunkTag(B64a, s), MetaWhole)

\* The registry when the two threads start: empty, or with the transfer as
\* the handling of some of its chunks, one at a time, has left it.
InitRace ==
    /\ \E received \in SUBSET SeqNums :
           /\ heap = IF received = {} THEN [k \in {} |-> Absent]
                     ELSE [k \in { InitialRef } |->
                              [received |-> received,
                               highest_contig |-> Advance(-1, received),
                               meta |-> NewTransferState(RaceChunk(0),
                                                         MaxSeq + 1).meta]]
           /\ transfer_refs = IF received = {} THEN [k \in {} |-> Absent]
                              ELSE [k \in { TidA } |-> InitialRef]
    /\ transfer_states = Registry(heap, transfer_refs)
    /\ data = Absent
    /\ sent = <<>>
    /\ result = Absent
    /\ outcome = "idle"
    /\ arrived = <<>>
    /\ threads = [t \in Threads |-> IdleThread]
    /\ cum_acks = <<>>

\* The thread t moves to pc with its locals changed as in changes.
Goto(t, pc, changes) ==
    /\ threads' = [threads EXCEPT ![t] = changes @@ [pc |-> pc] @@ threads[t]]
    /\ UNCHANGED << data, result, outcome, arrived, cum_acks >>

\* The dict behind the reference r changes as in changes, and transfer_states
\* holds the references refs.
StoreIn(r, changes, refs) ==
    /\ transfer_refs' = refs
    /\ heap' = [k \in DOMAIN heap \cup { r } |->
                   IF k = r
                   THEN IF r \in DOMAIN heap THEN changes @@ heap[r] ELSE changes
                   ELSE heap[k]]
    /\ transfer_states' = Registry(heap', transfer_refs')

LocalStep == UNCHANGED << transfer_states, heap, transfer_refs, sent >>

SeqOfThread(t) == threads[t].data.seq.int

\* on_reliable_event is called with a valid chunk, which passes the checks.
Begin(t) ==
    /\ threads[t].pc = "idle"
    /\ \E s \in SeqNums : Goto(t, "get", [data |-> RaceChunk(s)])
    /\ LocalStep

\* st = transfer_states.get(transfer_id); if not st:
GetState(t) ==
    /\ threads[t].pc = "get"
    /\ IF TidA \in DOMAIN transfer_refs
       THEN Goto(t, "test", [st |-> transfer_refs[TidA]])
       ELSE Goto(t, "create", [st |-> "none"])
    /\ LocalStep

\* st = {...}; transfer_states[transfer_id] = st
CreateState(t) ==
    /\ threads[t].pc = "create"
    /\ StoreIn(RefOf(t), NewTransferState(threads[t].data, MaxSeq + 1),
               [k \in DOMAIN transfer_refs \cup { TidA } |->
                   IF k = TidA THEN RefOf(t) ELSE transfer_refs[k]])
    /\ Goto(t, "test", [st |-> RefOf(t)])
    /\ UNCHANGED sent

\* if seq not in st['received']:
TestReceived(t) ==
    /\ threads[t].pc = "test"
    /\ IF SeqOfThread(t) \notin heap[threads[t].st].received
       THEN Goto(t, "add", << >>)
       ELSE Goto(t, "ack", << >>)
    /\ LocalStep

\* st['received'].add(seq)
AddReceived(t) ==
    /\ threads[t].pc = "add"
    /\ StoreIn(threads[t].st,
               [received |-> heap[threads[t].st].received
                                 \cup { SeqOfThread(t) }],
               transfer_refs)
    /\ Goto(t, "read", << >>)
    /\ UNCHANGED sent

\* hc = st['highest_contig']
ReadContig(t) ==
    /\ threads[t].pc = "read"
    /\ Goto(t, "advance", [hc |-> heap[threads[t].st].highest_contig])
    /\ LocalStep

\* while (hc + 1) in st['received']: hc += 1
AdvanceContig(t) ==
    /\ threads[t].pc = "advance"
    /\ IF (threads[t].hc + 1) \in heap[threads[t].st].received
       THEN Goto(t, "advance", [hc |-> threads[t].hc + 1])
       ELSE Goto(t, "write", << >>)
    /\ LocalStep

\* st['highest_contig'] = hc
WriteContig(t) ==
    /\ threads[t].pc = "write"
    /\ StoreIn(threads[t].st, [highest_contig |-> threads[t].hc],
               transfer_refs)
    /\ Goto(t, "ack", << >>)
    /\ UNCHANGED sent

\* _send_control(send, {'cmd': 'ACK', ...})
SendAck(t) ==
    /\ threads[t].pc = "ack"
    /\ sent' = SendControl(sent,
                 [cmd |-> JStr(StrACK),
                  transfer_id |-> threads[t].data.transfer_id,
                  seq |-> threads[t].data.seq,
                  meta |-> [integrity_status |-> << "valid" >>,
                            expected |-> threads[t].data.checksum,
                            received |-> threads[t].data.checksum]])
    /\ Goto(t, "cum", << >>)
    /\ UNCHANGED << transfer_states, heap, transfer_refs >>

\* if st['meta']['total_chunks']: if seq % 4 == 0 or ...: CUM_ACK; return
SendCumAck(t) ==
    /\ threads[t].pc = "cum"
    /\ sent' = IF CumAckDue(heap[threads[t].st], SeqOfThread(t))
               THEN SendControl(sent,
                      [cmd |-> JStr(StrCUM_ACK),
                       transfer_id |-> threads[t].data.transfer_id,
                       seq |-> JInt(heap[threads[t].st].highest_contig)])
               ELSE sent
    /\ Goto(t, "done", << >>)
    /\ UNCHANGED << transfer_states, heap, transfer_refs >>

NextRace ==
    \E t \in Threads :
        \/ Begin(t)
        \/ GetState(t)
        \/ CreateState(t)
        \/ TestReceived(t)
        \/ AddReceived(t)
        \/ ReadContig(t)
        \/ AdvanceContig(t)
        \/ WriteContig(t)
        \/ SendAck(t)
        \/ SendCumAck(t)

SpecRace == InitRace /\ [][NextRace]_vars

\* ------------------------------------------------------------------------
\* SpecLog: the chunks of one transfer, in any order and as often as the
\* sender likes, and its RESUME_REQUESTs, with the CUM_ACK frames that the
\* send callback has collected since the start
\* ------------------------------------------------------------------------

\* How many CUM_ACK frames the log holds before the sender stops.
MaxCumAcks == 3

\* The total_chunks a chunk announces: the whole transfer, or one chunk.
LogMetas == { MetaWhole, MetaOne }

LoggedChunk(s, m) == Chunk(TidA, JInt(s), B64a, ChunkTag(B64a, s), m)

LoggedResume == Control(JStr(StrRESUME_REQUEST), TidA)

\* bucket.append(payload): the log with the CUM_ACK frames among frames, the
\* frames sent for d, each kept with d.
Logged(log, frames, d) ==
    LET cums == SelectSeq(frames, LAMBDA f : f.cmd = JStr(StrCUM_ACK))
    IN  log \o [i \in 1..Len(cums) |-> [seq |-> cums[i].seq.int, frame |-> d]]

OnLogged(d) ==
    /\ Len(cum_acks) < MaxCumAcks
    /\ OnReliableEvent(d)
    /\ cum_acks' = Logged(cum_acks, sent', d)

OnLoggedChunk ==
    /\ \E s \in SeqNums : \E m \in LogMetas : OnLogged(LoggedChunk(s, m))
    /\ UNCHANGED << arrived, raceVars >>

OnLoggedResume == OnLogged(LoggedResume) /\ UNCHANGED << arrived, raceVars >>

NextLog == OnLoggedChunk \/ OnLoggedResume \/ EventDone

SpecLog == Init /\ [][NextLog]_vars

\* ------------------------------------------------------------------------
\* Vocabulary of the properties
\* ------------------------------------------------------------------------

\* A call has ended (in any way) and its frame is still in data.
Handled == outcome # "idle"

IsChunkFrame(d) == IsDict(d) /\ d.type = JStr(StrFILE_CHUNK)

IsMsgFrame(d) == IsDict(d) /\ d.type = JStr(StrMSG)

IsControlFrame(d) == IsDict(d) /\ d.type = JStr(StrCONTROL)

\* The frame's seq and total_chunks are numbers (or numerals, or missing).
WellNumbered(d) ==
    /\ IntOf(GetDefault(d, "seq", JInt(0))).ok
    /\ IntOf(GetDefault(d, "total_chunks", JInt(0))).ok

SeqOf(d) == IntOf(GetDefault(d, "seq", JInt(0))).val

\* The frame's payload_b64 is base64 text that decodes.
Decodable(d) == B64Decode(OrEmpty(Get(d, "payload_b64"))).ok

\* The bytes the integrity tag of a frame is computed over.
BytesOf(d) ==
    IF IsChunkFrame(d) THEN Decoded(OrEmpty(Get(d, "payload_b64"))).raw
    ELSE Encoded(d.payload.str)

\* The frame's tag: a string, the empty string when the frame carries none.
TagIsText(d) == IsStr(OrEmpty(Get(d, "checksum")))

TagText(d) == OrEmpty(Get(d, "checksum")).str

\* The largest n with 0..n all in received, -1 when 0 is not in it.
ContiguousPrefix(received) ==
    IF 0 \notin received THEN -1
    ELSE CHOOSE n \in received :
            /\ \A i \in 0..n : i \in received
            /\ (n + 1) \notin received

\* The commands of the control frames emitted for the frame, in order.
SentCmds(frames) == [i \in 1..Len(frames) |-> frames[i].cmd.str]

\* ------------------------------------------------------------------------
\* C1
\* ------------------------------------------------------------------------

\* C1: whatever frames have been handled, one at a time, every transfer of
\* the registry has highest_contig equal to the largest n >= 0 such that
\* 0..n is inside received, and equal to -1 when 0 is not in received.
C1_HighestContigIsPrefix ==
    \A t \in DOMAIN transfer_states :
        transfer_states[t].highest_contig
            = ContiguousPrefix(transfer_states[t].received)

\* C1 witness: chunk 1 has just filled the gap between chunks 0 and 2, and
\* the prefix boundary moved over both.
C1_Witness ==
    /\ outcome = "returned"
    /\ IsChunkFrame(data)
    /\ data.transfer_id = TidA
    /\ SeqOf(data) = 1
    /\ TidA \in DOMAIN transfer_states
    /\ transfer_states[TidA].received = { 0, 1, 2 }
    /\ transfer_states[TidA].highest_contig = 2

\* ------------------------------------------------------------------------
\* C2
\* ------------------------------------------------------------------------

\* The registry after all n chunks of the transfer have arrived.
CompleteRegistry(n) ==
    [k \in { TidA } |->
        [received |-> 0..(n - 1),
         highest_contig |-> n - 1,
         meta |-> [total_chunks |-> n, chunk_size |-> JInt(8),
                   filename |-> JStr(<< "f" >>), total_size |-> JInt(8 * n)]]]

\* C2: once the N chunks 0..N-1 of a transfer of N chunks have arrived, in
\* whatever order, highest_contig is N-1 and received is 0..N-1: the final
\* registry is the same for every order of arrival.
C2_AnyOrderCompletes ==
    \A n \in 1..MaxTotal :
        (Len(arrived) = n /\ transfer_states[TidA].meta.total_chunks = n)
            => transfer_states = CompleteRegistry(n)

\* C2 witness: the three chunks of a transfer arrived in the order 2, 0, 1.
C2_Witness ==
    /\ arrived = << 2, 0, 1 >>
    /\ transfer_states[TidA].meta.total_chunks = 3
    /\ transfer_states[TidA].highest_contig = 2
    /\ transfer_states[TidA].received = { 0, 1, 2 }

\* ------------------------------------------------------------------------
\* C3
\* ------------------------------------------------------------------------

\* A chunk that names a transfer, decodes, and carries the tag computed from
\* its bytes and its sequence number (in either letter case).
ValidChunk(d) ==
    /\ IsChunkFrame(d)
    /\ WellNumbered(d)
    /\ Truthy(Get(d, "transfer_id"))
    /\ Decodable(d)
    /\ TagIsText(d)
    /\ LowerStr(TagText(d)) = LowerStr(TagOf(BytesOf(d), SeqOf(d)))

\* The frames hold an ACK for the chunk's transfer and sequence number.
AckedChunk(frames, d) ==
    \E i \in 1..Len(frames) :
        /\ frames[i].cmd = JStr(StrACK)
        /\ frames[i].seq = JInt(SeqOf(d))
        /\ frames[i].transfer_id = d.transfer_id

\* The chunk's sequence number is already in its transfer's received set.
AlreadyReceived(ts, d) ==
    /\ d.transfer_id \in DOMAIN ts
    /\ SeqOf(d) \in ts[d.transfer_id].received

\* C3: every valid chunk is ACKed with its sequence number, the first time
\* and every time after; a valid chunk whose sequence number is already in
\* received leaves the registry (received, highest_contig, meta) as it was.
C3_IdempotentReceipt ==
    [][ (outcome = "idle" /\ ValidChunk(data'))
            => /\ outcome' = "returned"
               /\ AckedChunk(sent', data')
               /\ AlreadyReceived(transfer_states, data')
                      => transfer_states' = transfer_states ]_vars

\* C3 witness: a valid chunk has been ACKed whose total_chunks differs from
\* the stored one (the transfer existed before it) and whose sequence number
\* is the only one received: it was received before.
C3_Witness ==
    /\ outcome = "returned"
    /\ ValidChunk(data)
    /\ AckedChunk(sent, data)
    /\ data.transfer_id \in DOMAIN transfer_states
    /\ transfer_states[data.transfer_id].received = { SeqOf(data) }
    /\ transfer_states[data.transfer_id].meta.total_chunks
           # IntOf(GetDefault(data, "total_chunks", JInt(0))).val

\* ------------------------------------------------------------------------
\* C4
\* ------------------------------------------------------------------------

\* The frame is a RESUME_REQUEST for a transfer of the registry ts.
ResumeOfKnown(ts, d) ==
    /\ IsControlFrame(d)
    /\ d.cmd = JStr(StrRESUME_REQUEST)
    /\ d.transfer_id \in DOMAIN ts

\* The sequence numbers below totalChunks that the transfer has not received.
NotReceived(st) ==
    { i \in 0..(st.meta.total_chunks - 1) : i \notin st.received }

\* The list holds exactly the members of the set, in ascending order.
AscendingListOf(list, set) ==
    /\ { list[i] : i \in 1..Len(list) } = set
    /\ \A i \in 1..Len(list) : \A j \in 1..Len(list) : i < j => list[i] < list[j]

\* C4: a RESUME_REQUEST for a known transfer is answered by one control
\* frame: MISSING with exactly the sequence numbers below totalChunks that
\* are not in received, ascending, when there are any; otherwise CUM_ACK
\* with the transfer's highest_contig.
C4_ResumeReportsMissing ==
    [][ (outcome = "idle" /\ ResumeOfKnown(transfer_states, data'))
            => LET st == transfer_states[data'.transfer_id]
               IN  /\ outcome' = "returned"
                   /\ Len(sent') = 1
                   /\ sent'[1].transfer_id = data'.transfer_id
                   /\ IF NotReceived(st) # {}
                      THEN /\ sent'[1].cmd = JStr(StrMISSING)
                           /\ AscendingListOf(sent'[1].meta.missing,
                                              NotReceived(st))
                      ELSE /\ sent'[1].cmd = JStr(StrCUM_ACK)
                           /\ sent'[1].seq = JInt(st.highest_contig) ]_vars

\* C4 witness: a transfer of MaxSeq + 1 chunks that misses exactly its last
\* chunk has been asked to resume, and the answer is MISSING with that one.
C4_Witness ==
    /\ outcome = "returned"
    /\ ResumeOfKnown(transfer_states, data)
    /\ transfer_states[data.transfer_id].meta.total_chunks = MaxSeq + 1
    /\ transfer_states[data.transfer_id].received = 0..(MaxSeq - 1)
    /\ Len(sent) = 1
    /\ sent[1].cmd = JStr(StrMISSING)
    /\ sent[1].meta.missing = << MaxSeq >>

\* ------------------------------------------------------------------------
\* C5 and C6
\* ------------------------------------------------------------------------

\* A chunk that names a transfer and decodes, and whose tag (a string, or
\* none) differs from the tag computed from its bytes and sequence number
\* by more than letter case.
CorruptChunk(d) ==
    /\ IsChunkFrame(d)
    /\ WellNumbered(d)
    /\ Truthy(Get(d, "transfer_id"))
    /\ Decodable(d)
    /\ TagIsText(d)
    /\ LowerStr(TagText(d)) # LowerStr(TagOf(BytesOf(d), SeqOf(d)))

C6_ChecksumMismatchIsNack ==
    (outcome = "returned" /\ CorruptChunk(data))
        => /\ result.cmd = JStr(StrNACK)
           /\ sent[1].cmd = JStr(StrNACK)
           /\ sent[1].meta.reason = << "checksum_mismatch" >>

\* ------------------------------------------------------------------------
\* C7
\* ------------------------------------------------------------------------

\* A chunk whose transfer_id is absent or empty.
NoIdChunk(d) ==
    /\ IsChunkFrame(d)
    /\ WellNumbered(d)
    /\ ~Truthy(Get(d, "transfer_id"))

\* C7: a chunk without a transfer_id is answered by exactly one control
\* frame, NACK with reason missing_transfer_id, whatever its payload
\* encoding and its tag, and the registry is left as it was.
C7_MissingTransferId ==
    [][ (outcome = "idle" /\ NoIdChunk(data'))
            => /\ outcome' = "returned"
               /\ SentCmds(sent') = << StrNACK >>
               /\ sent'[1].meta.reason = << "missing_transfer_id" >>
               /\ sent'[1].seq = JInt(SeqOf(data'))
               /\ transfer_states' = transfer_states ]_vars

\* C7 witness: a chunk without a transfer_id, with a payload that does not
\* decode and a tag that matches nothing, has been NACKed for its missing
\* transfer_id.
C7_Witness ==
    /\ outcome = "returned"
    /\ NoIdChunk(data)
    /\ ~Decodable(data)
    /\ data.checksum = GarbageTag
    /\ SentCmds(sent) = << StrNACK >>
    /\ sent[1].meta.reason = << "missing_transfer_id" >>

\* ------------------------------------------------------------------------
\* C8
\* ------------------------------------------------------------------------

\* A chunk that names a transfer and whose payload_b64 does not decode.
BadEncodingChunk(d) ==
    /\ IsChunkFrame(d)
    /\ WellNumbered(d)
    /\ Truthy(Get(d, "transfer_id"))
    /\ ~Decodable(d)

\* The NACK of a chunk, with nothing in its meta but the reason.
NackOf(d, reason) ==
    [type |-> JStr(StrCONTROL), cmd |-> JStr(StrNACK), seq |-> JInt(SeqOf(d)),
     transfer_id |-> d.transfer_id, meta |-> [reason |-> << reason >>]]

C9_FailureBecomesInternalError ==
    outcome \in { "caught", "propagated" }
        => /\ outcome = "caught"
           /\ SentCmds(sent) = << StrNACK >>
           /\ sent[1].seq = GetDefault(data, "seq", JInt(-1))
           /\ sent[1].meta.reason[1] = "internal_error:"

\* ------------------------------------------------------------------------
\* C10
\* ------------------------------------------------------------------------

\* A message that carries a tag, or a chunk.
TaggedFrame(d) ==
    \/ IsMsgFrame(d) /\ Truthy(Get(d, "checksum"))
    \/ IsChunkFrame(d)

\* The engine accepts the frame's payload and tag at sequence number n.
AcceptedAt(d, n, ts) ==
    LET r == HandleReliableEvent([d EXCEPT !.seq = JInt(n)], Sid, ts)
    IN  r.exc = "" /\ r.result.cmd = JStr(StrACK)

\* The frame's payload and tag are accepted at a sequence number that is not
\* the frame's.
Replayed(d, ts) ==
    /\ TaggedFrame(d)
    /\ IntOf(GetDefault(d, "seq", JInt(0))).ok
    /\ \E n \in TagSeqs : n # SeqOf(d) /\ AcceptedAt(d, n, ts)

\* C10: a payload and tag that the engine accepts at one sequence number
\* are answered by INTEGRITY_FAIL at every other sequence number, in MSG
\* frames that carry a tag and in FILE_CHUNK frames alike.
C10_TagBoundToSequence ==
    (Handled /\ Replayed(data, transfer_states))
        => /\ outcome = "returned"
           /\ SentCmds(sent) = << StrINTEGRITY_FAIL >>
           /\ result.cmd = JStr(StrINTEGRITY_FAIL)

\* C10 witness: a chunk with the tag of the sequence number after its own has
\* been answered by INTEGRITY_FAIL.
C10_Witness ==
    /\ outcome = "returned"
    /\ IsChunkFrame(data)
    /\ AcceptedAt(data, SeqOf(data) + 1, transfer_states)
    /\ SentCmds(sent) = << StrINTEGRITY_FAIL >>

\* ------------------------------------------------------------------------
\* C11 and C12
\* ------------------------------------------------------------------------

\* The message carries an integrity tag (a checksum that is not empty).
MsgTagged(d) == Truthy(Get(d, "checksum"))

\* A message whose seq converts to a number and, when it carries a tag, whose
\* payload and tag are strings.
CheckableMsg(d) ==
    /\ IsMsgFrame(d)
    /\ IntOf(GetDefault(d, "seq", JInt(0))).ok
    /\ MsgTagged(d) => IsStr(GetDefault(d, "payload", JStr(<<>>))) /\ TagIsText(d)

\* The tag of the message differs from the tag computed from its payload and
\* its sequence number by more than letter case.
MsgTagDiffers(d) ==
    LowerStr(TagText(d))
        # LowerStr(TagOf(Encoded(GetDefault(d, "payload", JStr(<<>>)).str),
                         SeqOf(d)))

\* C11: a MSG frame is answered by exactly one control frame, which carries
\* the frame's sequence number: INTEGRITY_FAIL with reason
\* integrity_compromised when the frame carries a tag that differs from the
\* tag computed from its payload and sequence number, ACK when the tag
\* matches or there is none.
C11_MsgAnsweredOnce ==
    [][ (outcome = "idle" /\ CheckableMsg(data'))
            => /\ outcome' = "returned"
               /\ Len(sent') = 1
               /\ sent'[1].seq = JInt(SeqOf(data'))
               /\ IF MsgTagged(data') /\ MsgTagDiffers(data')
                  THEN /\ sent'[1].cmd = JStr(StrINTEGRITY_FAIL)
                       /\ sent'[1].meta.reason = << "integrity_compromised" >>
                  ELSE sent'[1].cmd = JStr(StrACK) ]_vars

\* C11 witness: a message with the tag of its payload at the next sequence
\* number has been answered by one INTEGRITY_FAIL with its own sequence number.
C11_Witness ==
    /\ outcome = "returned"
    /\ CheckableMsg(data)
    /\ data.checksum = MsgTag(data.payload, SeqOf(data) + 1)
    /\ SentCmds(sent) = << StrINTEGRITY_FAIL >>
    /\ sent[1].seq = data.seq

\* C12: handling a MSG frame, accepted or rejected, with or without a
\* transfer_id, leaves transfer_states exactly as it was.
C12_MsgLeavesRegistry ==
    [][ (outcome = "idle" /\ IsMsgFrame(data'))
            => transfer_states' = transfer_states ]_vars

\* C12 witness: a message that names a transfer has been ACKed, the registry
\* has no entry for that transfer and has one for another.
C12_Witness ==
    /\ outcome = "returned"
    /\ IsMsgFrame(data)
    /\ Truthy(data.transfer_id)
    /\ SentCmds(sent) = << StrACK >>
    /\ data.transfer_id \notin DOMAIN transfer_states
    /\ transfer_states # << >>

\* ------------------------------------------------------------------------
\* C13 and C14
\* ------------------------------------------------------------------------

\* n is a multiple of 4.
MultipleOfFour(n) == \E k \in 0..n : n = 4 * k

\* The cumulative acknowledgement is due for the chunk d once the transfer
\* is in the state st.
CumulativeDue(st, d) ==
    /\ st.meta.total_chunks # 0
    /\ \/ MultipleOfFour(SeqOf(d))
       \/ st.highest_contig = st.meta.total_chunks - 1

\* C13: an accepted chunk is answered by ACK and then CUM_ACK if and only if
\* the stored total_chunks of its transfer is not zero and, the chunk
\* applied, its sequence number is a multiple of 4 or highest_contig is
\* total_chunks - 1; the CUM_ACK carries that highest_contig and the chunk's
\* transfer_id. Otherwise it is answered by the ACK alone.
C13_CumAckPolicy ==
    [][ (outcome = "idle" /\ ValidChunk(data'))
            => LET st == transfer_states'[data'.transfer_id]
               IN  IF CumulativeDue(st, data')
                   THEN /\ SentCmds(sent') = << StrACK, StrCUM_ACK >>
                        /\ sent'[2].seq = JInt(st.highest_contig)
                        /\ sent'[2].transfer_id = data'.transfer_id
                   ELSE SentCmds(sent') = << StrACK >> ]_vars

\* C13 witness: the chunk with sequence number 4 of a transfer of more chunks,
\* which it leaves incomplete, has been answered by ACK and CUM_ACK.
C13_Witness ==
    /\ outcome = "returned"
    /\ ValidChunk(data)
    /\ SeqOf(data) = 4
    /\ transfer_states[data.transfer_id].meta.total_chunks > 4
    /\ transfer_states[data.transfer_id].highest_contig
           < transfer_states[data.transfer_id].meta.total_chunks - 1
    /\ SentCmds(sent) = << StrACK, StrCUM_ACK >>
    /\ sent[2].seq = JInt(transfer_states[data.transfer_id].highest_contig)

\* The sequence numbers of the chunks that have arrived.
Arrived(order) == { order[i] : i \in 1..Len(order) }

\* C14: when the valid chunks of a transfer of N >= 1 chunks arrive in any
\* order, each is ACKed with its sequence number as it arrives, and the one
\* that arrives last, whatever its sequence number, is followed by a CUM_ACK
\* with seq = N - 1, the last control frame emitted.
C14_CompletionCumAck ==
    [][ (outcome = "idle" /\ outcome' # "idle")
            => LET n == transfer_states'[TidA].meta.total_chunks
               IN  /\ AckedChunk(sent', data')
                   /\ Arrived(arrived') = Arrived(arrived) \cup { SeqOf(data') }
                   /\ Len(arrived') = n
                          => /\ Arrived(arrived') = 0..(n - 1)
                             /\ sent'[Len(sent')].cmd = JStr(StrCUM_ACK)
                             /\ sent'[Len(sent')].seq = JInt(n - 1)
                             /\ sent'[Len(sent')].transfer_id = TidA ]_vars

\* C14 witness: a transfer of MaxTotal chunks is complete, the chunk that
\* arrived last was chunk 1, and the last frame is CUM_ACK with MaxTotal - 1.
C14_Witness ==
    /\ outcome = "returned"
    /\ Len(arrived) = MaxTotal
    /\ arrived[Len(arrived)] = 1
    /\ Arrived(arrived) = 0..(MaxTotal - 1)
    /\ sent[Len(sent)].cmd = JStr(StrCUM_ACK)
    /\ sent[Len(sent)].seq = JInt(MaxTotal - 1)

\* ------------------------------------------------------------------------
\* C15
\* ------------------------------------------------------------------------

\* The frame is a RESUME_REQUEST that names a transfer the registry ts does
\* not know.
ResumeOfUnknown(ts, d) ==
    /\ IsControlFrame(d)
    /\ d.cmd = JStr(StrRESUME_REQUEST)
    /\ Truthy(d.transfer_id)
    /\ d.transfer_id \notin DOMAIN ts

\* C15: a RESUME_REQUEST for a transfer_id without registry entry is
\* answered by exactly one control frame, CUM_ACK with seq = -1 and that
\* transfer_id, and creates no registry entry.
C15_ResumeOfUnknownTransfer ==
    [][ (outcome = "idle" /\ ResumeOfUnknown(transfer_states, data'))
            => /\ outcome' = "returned"
               /\ sent' = << [type |-> JStr(StrCONTROL),
                              cmd |-> JStr(StrCUM_ACK),
                              transfer_id |-> data'.transfer_id,
                              seq |-> JInt(-1)] >>
               /\ transfer_states' = transfer_states ]_vars

\* C15 witness: a transfer the registry does not know has been asked to
\* resume, while the registry knows another one, and the answer is CUM_ACK
\* with -1.
C15_Witness ==
    /\ outcome = "returned"
    /\ ResumeOfUnknown(transfer_states, data)
    /\ transfer_states # << >>
    /\ SentCmds(sent) = << StrCUM_ACK >>
    /\ sent[1].seq = JInt(-1)

\* ------------------------------------------------------------------------
\* C16, C17 and C18
\* ------------------------------------------------------------------------

\* The meta a chunk carries, as the handler reads it.
MetaOf(d) ==
    [total_chunks |-> IntOf(GetDefault(d, "total_chunks", JInt(0))).val,
     chunk_size |-> Get(d, "chunk_size"),
     filename |-> Get(d, "filename"),
     total_size |-> Get(d, "total_size")]

\* C16: the meta of a transfer is the meta of its first accepted chunk, and
\* no step changes the meta of a transfer the registry holds, whatever
\* total_chunks, chunk_size, filename or total_size later chunks carry.
C16_MetaFixedByFirstChunk ==
    [][ /\ \A t \in DOMAIN transfer_states :
               /\ t \in DOMAIN transfer_states'
               /\ transfer_states'[t].meta = transfer_states[t].meta
        /\ \A t \in DOMAIN transfer_states' \ DOMAIN transfer_states :
               /\ ValidChunk(data')
               /\ data'.transfer_id = t
               /\ transfer_states'[t].meta = MetaOf(data') ]_vars

\* C16 witness: a chunk that carries another meta than its transfer has been
\* accepted as the second chunk of the transfer.
C16_Witness ==
    /\ outcome = "returned"
    /\ ValidChunk(data)
    /\ data.transfer_id \in DOMAIN transfer_states
    /\ transfer_states[data.transfer_id].meta.total_chunks
           # MetaOf(data).total_chunks
    /\ transfer_states[data.transfer_id].meta.filename # MetaOf(data).filename
    /\ \E s \in transfer_states[data.transfer_id].received : s # SeqOf(data)
    /\ AckedChunk(sent, data)

\* C17: in every step a transfer of the registry stays in it, its received
\* set keeps all its members and its highest_contig does not decrease.
C17_RegistryOnlyGrows ==
    [][ \A t \in DOMAIN transfer_states :
            /\ t \in DOMAIN transfer_states'
            /\ transfer_states[t].received \subseteq transfer_states'[t].received
            /\ transfer_states[t].highest_contig
                   <= transfer_states'[t].highest_contig ]_vars

\* C17 witness: chunk 0 has been accepted after chunk 1 of its transfer:
\* received has grown to both and highest_contig from -1 to 1.
C17_Witness ==
    /\ outcome = "returned"
    /\ ValidChunk(data)
    /\ SeqOf(data) = 0
    /\ transfer_states[data.transfer_id].received = { 0, 1 }
    /\ transfer_states[data.transfer_id].highest_contig = 1
    /\ SentCmds(sent)[1] = StrACK

\* The transfer has a known number of chunks and has received them all in
\* sequence.
Complete(st) ==
    /\ st.meta.total_chunks > 0
    /\ st.highest_contig = st.meta.total_chunks - 1

\* C18: a transfer that is complete is complete after every step, whatever
\* frame the step handles.
C18_CompleteStaysComplete ==
    [][ \A t \in DOMAIN transfer_states :
            Complete(transfer_states[t])
                => t \in DOMAIN transfer_states' /\ Complete(transfer_states'[t])
      ]_vars

\* ------------------------------------------------------------------------
\* C19 and C20
\* ------------------------------------------------------------------------

\* Both handlers have finished, and their chunks had different sequence
\* numbers.
RaceOver ==
    /\ \A t \in Threads : threads[t].pc = "done"
    /\ SeqOfThread(1) # SeqOfThread(2)

\* The sequence numbers the ACKs sent so far carry.
AckedSeqs ==
    { sent[i].seq.int : i \in { j \in 1..Len(sent) : sent[j].cmd = JStr(StrACK) } }

\* C19: when two handlers have processed two valid chunks with different
\* sequence numbers of a transfer that existed before both, received holds
\* both sequence numbers and highest_contig is the largest n with 0..n in
\* received.
C19_ConcurrentChunksKept ==
    (RaceOver /\ InitialRef \in DOMAIN heap)
        => /\ { SeqOfThread(1), SeqOfThread(2) }
                  \subseteq transfer_states[TidA].received
           /\ transfer_states[TidA].highest_contig
                  = ContiguousPrefix(transfer_states[TidA].received)

\* C20: when two handlers have processed the first two valid chunks of a
\* transfer, one state has been created for it, its received set holds both
\* sequence numbers, and every sequence number ACKed is in it.
C20_OneStateCreated ==
    (RaceOver /\ InitialRef \notin DOMAIN heap)
        => /\ Cardinality(DOMAIN heap) = 1
           /\ { SeqOfThread(1), SeqOfThread(2) }
                  \subseteq transfer_states[TidA].received
           /\ AckedSeqs \subseteq transfer_states[TidA].received

\* ------------------------------------------------------------------------
\* C21
\* ------------------------------------------------------------------------

\* A call starts and ends in this step; its frame is data'.
Handles == outcome = "idle" /\ outcome' # "idle"

\* One of the frames is a NACK or an INTEGRITY_FAIL.
Rejected(frames) ==
    \E i \in 1..Len(frames) :
        frames[i].cmd \in { JStr(StrNACK), JStr(StrINTEGRITY_FAIL) }

\* The frame names the transfer t.
Names(d, t) == IsDict(d) /\ d.transfer_id = t

\* C21: the handling of a frame leaves the state of every transfer that the
\* frame does not name as it was, and the handling of a frame answered with
\* NACK or INTEGRITY_FAIL leaves the whole registry as it was.
C21_OtherTransfersUntouched ==
    [][ Handles =>
          /\ \A t \in DOMAIN transfer_states \cup DOMAIN transfer_states' :
                ~Names(data', t)
                    => /\ t \in DOMAIN transfer_states
                       /\ t \in DOMAIN transfer_states'
                       /\ transfer_states'[t] = transfer_states[t]
          /\ Rejected(sent') => transfer_states' = transfer_states ]_vars

\* C21 witness: a chunk of transfer A has been answered with INTEGRITY_FAIL
\* while A holds other sequence numbers and transfer B is in the registry.
C21_Witness ==
    /\ outcome = "returned"
    /\ IsChunkFrame(data)
    /\ data.transfer_id = TidA
    /\ sent[1].cmd = JStr(StrINTEGRITY_FAIL)
    /\ TidA \in DOMAIN transfer_states
    /\ TidB \in DOMAIN transfer_states
    /\ transfer_states[TidA].received # {}
    /\ SeqOf(data) \notin transfer_states[TidA].received

\* ------------------------------------------------------------------------
\* C22
\* ------------------------------------------------------------------------

\* A CONTROL frame that is no RESUME_REQUEST with a transfer_id.
SilentControl(d) ==
    /\ IsControlFrame(d)
    /\ ~(Get(d, "cmd") = JStr(StrRESUME_REQUEST)
          /\ Truthy(Get(d, "transfer_id")))

\* C22: a CONTROL frame whose command is not RESUME_REQUEST, and a
\* RESUME_REQUEST without a transfer_id, has no control frame sent for it and
\* leaves the registry as it was, and the result returned carries the
\* command of the frame.
C22_OtherControlIsSilent ==
    [][ (Handles /\ SilentControl(data'))
          => /\ outcome' = "returned"
             /\ sent' = <<>>
             /\ transfer_states' = transfer_states
             /\ result'.cmd = Get(data', "cmd") ]_vars

\* C22 witness: a CONTROL frame with the command ACK that names a transfer of
\* the registry has been handled.
C22_Witness ==
    /\ outcome = "returned"
    /\ IsControlFrame(data)
    /\ data.cmd = JStr(StrACK)
    /\ data.transfer_id \in DOMAIN transfer_states
    /\ sent = <<>>
    /\ result.cmd = JStr(StrACK)

\* ------------------------------------------------------------------------
\* C23
\* ------------------------------------------------------------------------

\* The frame is a FILE_CHUNK and the first frame sent for it is an ACK.
ChunkAccepted(d, frames) ==
    /\ IsChunkFrame(d)
    /\ frames # <<>>
    /\ frames[1].cmd = JStr(StrACK)

\* C23: the registry starts empty; a step adds the entry of a transfer only
\* when it accepts a FILE_CHUNK of that transfer, every accepted FILE_CHUNK
\* leaves its transfer in the registry, no entry is ever removed, and every
\* entry has a received set that is not empty.
C23_EntryIffChunkAccepted ==
    [][ /\ \A t \in DOMAIN transfer_states' :
              transfer_states'[t].received # {}
        /\ \A t \in DOMAIN transfer_states : t \in DOMAIN transfer_states'
        /\ \A t \in DOMAIN transfer_states' \ DOMAIN transfer_states :
              ChunkAccepted(data', sent') /\ data'.transfer_id = t
        /\ (Handles /\ ChunkAccepted(data', sent'))
              => data'.transfer_id \in DOMAIN transfer_states' ]_vars

\* C23 witness: a chunk of transfer B has been rejected, and the registry
\* holds transfer A, of which a chunk was accepted, and not transfer B.
C23_Witness ==
    /\ outcome = "returned"
    /\ IsChunkFrame(data)
    /\ data.transfer_id = TidB
    /\ Rejected(sent)
    /\ TidB \notin DOMAIN transfer_states
    /\ TidA \in DOMAIN transfer_states

\* ------------------------------------------------------------------------
\* C24
\* ------------------------------------------------------------------------

\* The CUM_ACK frames of the log that answered a chunk whose sequence number
\* is not a multiple of 4.
CompletionSignals ==
    { i \in 1..Len(cum_acks) :
        /\ IsChunkFrame(cum_acks[i].frame)
        /\ ~MultipleOfFour(SeqOf(cum_acks[i].frame)) }

\* C24: whatever chunks of one transfer have been handled, repeated or not,
\* at most one CUM_ACK has answered a chunk whose sequence number is not a
\* multiple of 4.
C24_OneCompletionSignal == Cardinality(CompletionSignals) <= 1

\* ------------------------------------------------------------------------
\* C25
\* ------------------------------------------------------------------------

HexDigits ==
    { "0", "1", "2", "3", "4", "5", "6", "7", "8", "9",
      "a", "b", "c", "d", "e", "f" }

\* Exactly 8 lowercase hexadecimal digits.
EightHexDigits(s) ==
    /\ Len(s) = 8
    /\ \A i \in 1..Len(s) : s[i] \in HexDigits

\* The call returned an ACK that reports the tag the engine computed.
AcceptedWithTag ==
    /\ outcome = "returned"
    /\ IsMsgFrame(data) \/ IsChunkFrame(data)
    /\ sent # <<>>
    /\ sent[1].cmd = JStr(StrACK)
    /\ "meta" \in DOMAIN sent[1]
    /\ "expected" \in DOMAIN sent[1].meta

\* The frame's tag is, letter case aside, the tag of its bytes and its
\* sequence number.
TagMatchesUpToCase(d) ==
    /\ WellNumbered(d)
    /\ IsChunkFrame(d) => Truthy(Get(d, "transfer_id")) /\ Decodable(d)
    /\ IsMsgFrame(d) => IsStr(Get(d, "payload"))
    /\ TagIsText(d)
    /\ TagText(d) # <<>>
    /\ Lower(TagText(d)) = Lower(CalculatedHex(BytesOf(d), SeqOf(d)))

\* C25: the tag the engine computes for a MSG or FILE_CHUNK frame it accepts
\* is 8 lowercase hexadecimal digits, and a frame whose tag differs from the
\* computed one in letter case only is accepted.
C25_TagIsEightHexDigits ==
    /\ AcceptedWithTag => EightHexDigits(sent[1].meta.expected.str)
    /\ (outcome = "returned"
        /\ (IsMsgFrame(data) \/ IsChunkFrame(data))
        /\ TagMatchesUpToCase(data))
          => sent[1].cmd = JStr(StrACK)

\* ------------------------------------------------------------------------
\* C26
\* ------------------------------------------------------------------------

PrimaryCmds == { JStr(StrACK), JStr(StrNACK), JStr(StrINTEGRITY_FAIL) }

\* C26: when handle_reliable_event has returned for a MSG or FILE_CHUNK
\* frame, the first frame sent is an ACK, a NACK or an INTEGRITY_FAIL with the
\* cmd of the result, and the only other frame there can be is one CUM_ACK,
\* sent second, for a FILE_CHUNK, after an ACK.
C26_OnePrimaryReply ==
    (outcome = "returned" /\ (IsMsgFrame(data) \/ IsChunkFrame(data)))
        => /\ sent # <<>>
           /\ sent[1].cmd \in PrimaryCmds
           /\ sent[1].cmd = result.cmd
           /\ \A i \in 2..Len(sent) :
                 /\ i = 2
                 /\ sent[i].cmd = JStr(StrCUM_ACK)
                 /\ IsChunkFrame(data)
                 /\ sent[1].cmd = JStr(StrACK)

\* C26 witness: a chunk has been answered with an ACK and then a CUM_ACK, and
\* the result says ACK.
C26_Witness ==
    /\ outcome = "returned"
    /\ IsChunkFrame(data)
    /\ SentCmds(sent) = << StrACK, StrCUM_ACK >>
    /\ result.cmd = JStr(StrACK)

\* ------------------------------------------------------------------------
\* C27
\* ------------------------------------------------------------------------

\* highest_contig of the transfer t in the registry ts, -1 when ts does not
\* know t.
ContigOf(ts, t) == IF t \in DOMAIN ts THEN ts[t].highest_contig ELSE -1

\* C27: frames handled one at a time: every CUM_ACK sent for the transfer
\* carries a seq that is at least -1, that is the transfer's highest_contig
\* when it is sent (-1 for a transfer not in the registry), and that is not
\* below the seq of any CUM_ACK sent for the transfer before.
C27_CumAcksNeverDecrease ==
    [][ Handles =>
          \A i \in 1..Len(sent') :
              sent'[i].cmd = JStr(StrCUM_ACK)
                  => /\ sent'[i].seq.int >= -1
                     /\ sent'[i].seq.int
                           = ContigOf(transfer_states', sent'[i].transfer_id)
                     /\ \A j \in 1..Len(cum_acks) :
                           cum_acks[j].seq <= sent'[i].seq.int ]_vars

\* C27 witness: the log holds the -1 that answered the RESUME_REQUEST for the
\* transfer still unknown, then CUM_ACKs triggered by chunks, the last one
\* above the first of them.
C27_Witness ==
    /\ Len(cum_acks) = MaxCumAcks
    /\ IsControlFrame(cum_acks[1].frame)
    /\ cum_acks[1].seq = -1
    /\ IsChunkFrame(cum_acks[2].frame)
    /\ IsChunkFrame(cum_acks[Len(cum_acks)].frame)
    /\ cum_acks[2].seq < cum_acks[Len(cum_acks)].seq

====
